---- MODULE Spec2Model ----
(***************************************************************************)
(* The parse-tree driver of tools/analyze.py: main() opens the grammar     *)
(* file at a fixed path, builds a Lark parser from its text, opens the     *)
(* file named by sys.argv[1], parses its text and prints the tree.         *)
(*                                                                         *)
(* The process is modelled statement by statement.  The file system, the   *)
(* command line and the behaviour of the lark library are the environment: *)
(* they are chosen in Init and the driver never changes them.  The library *)
(* is a black box to the driver, so it is modelled as an arbitrary but     *)
(* fixed pair of relations: which texts are well-formed grammars and which *)
(* texts each well-formed grammar accepts.  File contents are opaque       *)
(* identifiers; the driver never inspects them.  Writes to standard output *)
(* are assumed to succeed.                                                 *)
(***************************************************************************)
EXTENDS Integers, Sequences, FiniteSets

\* ---------------------------------------------------------------- bounds

\* Number of distinct file contents in the universe.
NumContents == 2
\* Largest number of command-line arguments after the program name.
MaxArgs == 2
\* Number of consecutive invocations of the driver on the same environment.
MaxRuns == 2

\* ----------------------------------------------------------- environment

Contents == 1..NumContents
\* The value of a Python name that is not bound yet.
None == 0

\* The hard-coded path of the grammar file and one other path.
GrammarPath == "powershell.lark"
Paths == {GrammarPath, "script.ps1"}

\* What a path holds: nothing, a file that may not be opened, a file whose
\* bytes do not decode as text, or a text file with some content.
FileStates ==
    {[kind |-> k, data |-> None] : k \in {"absent", "denied", "undecodable"}}
        \cup {[kind |-> "text", data |-> c] : c \in Contents}

\* sys.argv: the program name followed by at most MaxArgs arguments.  The
\* first argument is any path; main never reads the arguments after it, so
\* they all carry the same value.
ArgVectors ==
    {<<"analyze.py">>}
        \cup {<<"analyze.py", p>> \o [i \in 1..n |-> "extra"] :
                  p \in Paths, n \in 0..(MaxArgs - 1)}

\* The five steps of main, in program order.
Order == <<"load_grammar", "compile", "load_source", "parse", "render">>

NoTree == [grammar |-> None, text |-> None]

VARIABLES
    fs,          \* the file system: what each path holds
    argv,        \* sys.argv
    wellFormed,  \* lark: the texts that are well-formed grammars
    conforms,    \* lark: <<g, s>> when text s is in the language of grammar g
    pc,          \* position of the process in main
    path,        \* the value of sys.argv[1] once evaluated
    grammar,     \* local variable grammar
    parser,      \* local variable parser (the grammar it was compiled from)
    script,      \* local variable script
    tree,        \* local variable tree
    exc,         \* the exception in flight, "None" when there is none
    openFiles,   \* the file objects that are currently open
    stdout,      \* what has been written to standard output
    stderr,      \* the diagnostics written to standard error
    exited,      \* the process has terminated
    status,      \* its exit status once exited
    attempted,   \* history: the steps that have begun
    completed,   \* history: the steps that have completed successfully
    run,         \* history: number of the current invocation
    prev         \* history: outcome of the previous invocation

env == <<fs, argv, wellFormed, conforms>>
locals == <<path, grammar, parser, script, tree>>
streams == <<stdout, stderr>>
proc == <<exited, status>>
hist == <<run, prev>>
vars == <<fs, argv, wellFormed, conforms, pc, path, grammar, parser, script,
          tree, exc, openFiles, stdout, stderr, exited, status, attempted,
          completed, run, prev>>

\* A fresh process: nothing bound, nothing open, nothing written.
Fresh ==
    /\ pc = "start"
    /\ path = "" /\ grammar = None /\ parser = None /\ script = None
    /\ tree = NoTree
    /\ exc = "None"
    /\ openFiles = {}
    /\ stdout = <<>> /\ stderr = <<>>
    /\ exited = FALSE /\ status = 0
    /\ attempted = <<>> /\ completed = <<>>

Init ==
    /\ fs \in [Paths -> FileStates]
    /\ argv \in ArgVectors
    /\ wellFormed \in SUBSET Contents
    /\ conforms \in SUBSET (wellFormed \X Contents)
    /\ Fresh
    /\ run = 1
    /\ prev = [out |-> <<>>, err |-> <<>>, status |-> 0, fs |-> fs]

\* -------------------------------------------------------------- helpers

\* raise: the current statement fails with exception e; nothing in
\* main catches it, so control leaves main.
Raise(e) ==
    /\ exc' = e
    /\ pc' = "unwind"

\* open(p, 'r'): the exception it raises for what p holds, "None" if it opens.
OpenError(p) ==
    CASE fs[p].kind = "absent" -> "FileNotFoundError"
      [] fs[p].kind = "denied" -> "PermissionError"
      [] OTHER -> "None"

\* tree.pretty(): the rendering of a tree.
Pretty(t) == [grammar |-> t.grammar, text |-> t.text]

\* ---------------------------------------------------------------- actions

\* Variant: the argument count is validated before anything else.
OpenGrammarCheckArgs ==
    /\ pc = "start"
    /\ IF Len(argv) < 2
         THEN /\ Raise("IndexError")
              /\ attempted' = Append(attempted, "load_source")
              /\ UNCHANGED openFiles
         ELSE /\ attempted' = Append(attempted, "load_grammar")
              /\ IF OpenError(GrammarPath) # "None"
                   THEN /\ Raise(OpenError(GrammarPath))
                        /\ UNCHANGED openFiles
                   ELSE /\ openFiles' = openFiles \cup {"grammar"}
                        /\ pc' = "read_grammar"
                        /\ UNCHANGED exc
    /\ UNCHANGED <<env, locals, streams, proc, completed, hist>>

\* with open(<grammar path>, 'r') as f:
OpenGrammar ==
    /\ pc = "start"
    /\ attempted' = Append(attempted, "load_grammar")
    /\ IF OpenError(GrammarPath) # "None"
         THEN /\ Raise(OpenError(GrammarPath))
              /\ UNCHANGED openFiles
         ELSE /\ openFiles' = openFiles \cup {"grammar"}
              /\ pc' = "read_grammar"
              /\ UNCHANGED exc
    /\ UNCHANGED <<env, locals, streams, proc, completed, hist>>

\*     grammar = f.read()
ReadGrammar ==
    /\ pc = "read_grammar"
    /\ IF fs[GrammarPath].kind = "undecodable"
         THEN /\ exc' = "UnicodeDecodeError"
              /\ UNCHANGED grammar
         ELSE /\ grammar' = fs[GrammarPath].data
              /\ UNCHANGED exc
    /\ pc' = "close_grammar"
    /\ UNCHANGED <<env, path, parser, script, tree, openFiles, streams, proc,
                   attempted, completed, hist>>

\* Variant: f = open(...); grammar = f.read(); f.close() without a with
\* block, so a failing read leaves the file open.
CloseGrammarLeak ==
    /\ pc = "close_grammar"
    /\ IF exc # "None"
         THEN /\ pc' = "unwind"
              /\ UNCHANGED <<completed, openFiles>>
         ELSE /\ pc' = "compile"
              /\ openFiles' = openFiles \ {"grammar"}
              /\ completed' = Append(completed, "load_grammar")
    /\ UNCHANGED <<env, locals, exc, streams, proc, attempted, hist>>

\* leaving the with block: f is closed, then a pending exception propagates
CloseGrammar ==
    /\ pc = "close_grammar"
    /\ openFiles' = openFiles \ {"grammar"}
    /\ IF exc # "None"
         THEN /\ pc' = "unwind"
              /\ UNCHANGED completed
         ELSE /\ pc' = "compile"
              /\ completed' = Append(completed, "load_grammar")
    /\ UNCHANGED <<env, locals, exc, streams, proc, attempted, hist>>

\* Variant: a GrammarError is caught and the run continues without a parser.
CompileContinue ==
    /\ pc = "compile"
    /\ attempted' = Append(attempted, "compile")
    /\ IF grammar \in wellFormed
         THEN /\ parser' = grammar
              /\ completed' = Append(completed, "compile")
         ELSE UNCHANGED <<parser, completed>>
    /\ pc' = "argv"
    /\ UNCHANGED <<env, path, grammar, script, tree, exc, openFiles, streams,
                   proc, hist>>

\* parser = Lark(grammar)
Compile ==
    /\ pc = "compile"
    /\ attempted' = Append(attempted, "compile")
    /\ IF grammar \in wellFormed
         THEN /\ parser' = grammar
              /\ completed' = Append(completed, "compile")
              /\ pc' = "argv"
              /\ UNCHANGED exc
         ELSE /\ Raise("GrammarError")
              /\ UNCHANGED <<parser, completed>>
    /\ UNCHANGED <<env, path, grammar, script, tree, openFiles, streams, proc,
                   hist>>

\* Variant: a missing argument makes main return quietly.
ArgvAccessSilent ==
    /\ pc = "argv"
    /\ attempted' = Append(attempted, "load_source")
    /\ IF Len(argv) < 2
         THEN /\ pc' = "return"
              /\ UNCHANGED path
         ELSE /\ path' = argv[2]
              /\ pc' = "open_source"
    /\ UNCHANGED <<env, grammar, parser, script, tree, exc, openFiles,
                   streams, proc, completed, hist>>

\* sys.argv[1]
ArgvAccess ==
    /\ pc = "argv"
    /\ attempted' = Append(attempted, "load_source")
    /\ IF Len(argv) < 2
         THEN /\ Raise("IndexError")
              /\ UNCHANGED path
         ELSE /\ path' = argv[2]
              /\ pc' = "open_source"
              /\ UNCHANGED exc
    /\ UNCHANGED <<env, grammar, parser, script, tree, openFiles, streams,
                   proc, completed, hist>>

\* with open(sys.argv[1], 'r') as f:
OpenSource ==
    /\ pc = "open_source"
    /\ IF OpenError(path) # "None"
         THEN /\ Raise(OpenError(path))
              /\ UNCHANGED openFiles
         ELSE /\ openFiles' = openFiles \cup {"source"}
              /\ pc' = "read_source"
              /\ UNCHANGED exc
    /\ UNCHANGED <<env, locals, streams, proc, attempted, completed, hist>>

\* Variant: open(..., errors='ignore'): undecodable bytes are dropped and the
\* read yields some text instead of failing.
ReadSourceLenient ==
    /\ pc = "read_source"
    /\ script' = IF fs[path].kind = "undecodable" THEN 1 ELSE fs[path].data
    /\ pc' = "close_source"
    /\ UNCHANGED <<env, path, grammar, parser, tree, exc, openFiles, streams,
                   proc, attempted, completed, hist>>

\*     script = f.read()
ReadSource ==
    /\ pc = "read_source"
    /\ IF fs[path].kind = "undecodable"
         THEN /\ exc' = "UnicodeDecodeError"
              /\ UNCHANGED script
         ELSE /\ script' = fs[path].data
              /\ UNCHANGED exc
    /\ pc' = "close_source"
    /\ UNCHANGED <<env, path, grammar, parser, tree, openFiles, streams, proc,
                   attempted, completed, hist>>

\* Variant: the source file is treated as consumed and removed after reading.
CloseSourceUnlink ==
    /\ pc = "close_source"
    /\ openFiles' = openFiles \ {"source"}
    /\ fs' = [fs EXCEPT ![path] = [kind |-> "absent", data |-> None]]
    /\ IF exc # "None"
         THEN /\ pc' = "unwind"
              /\ UNCHANGED completed
         ELSE /\ pc' = "parse"
              /\ completed' = Append(completed, "load_source")
    /\ UNCHANGED <<argv, wellFormed, conforms, locals, exc, streams, proc,
                   attempted, hist>>

\* leaving the with block: f is closed, then a pending exception propagates
CloseSource ==
    /\ pc = "close_source"
    /\ openFiles' = openFiles \ {"source"}
    /\ IF exc # "None"
         THEN /\ pc' = "unwind"
              /\ UNCHANGED completed
         ELSE /\ pc' = "parse"
              /\ completed' = Append(completed, "load_source")
    /\ UNCHANGED <<env, locals, exc, streams, proc, attempted, hist>>

\* Variant: error recovery, a partial tree is returned for a text that does
\* not conform instead of an exception.
ParseRecover ==
    /\ pc = "parse"
    /\ attempted' = Append(attempted, "parse")
    /\ tree' = [grammar |-> parser, text |-> script]
    /\ completed' = Append(completed, "parse")
    /\ pc' = "render"
    /\ UNCHANGED <<env, path, grammar, parser, script, exc, openFiles, streams,
                   proc, hist>>

\* tree = parser.parse(script)
Parse ==
    /\ pc = "parse"
    /\ attempted' = Append(attempted, "parse")
    /\ IF <<parser, script>> \in conforms
         THEN /\ tree' = [grammar |-> parser, text |-> script]
              /\ completed' = Append(completed, "parse")
              /\ pc' = "render"
              /\ UNCHANGED exc
         ELSE /\ Raise("UnexpectedInput")
              /\ UNCHANGED <<tree, completed>>
    /\ UNCHANGED <<env, path, grammar, parser, script, openFiles, streams,
                   proc, hist>>

\* Variant: the tree is written once, then main fails after the output.
RenderThenFail ==
    /\ pc = "render"
    /\ attempted' = Append(attempted, "render")
    /\ stdout' = Append(stdout, Pretty(tree))
    /\ Raise("AttributeError")
    /\ UNCHANGED <<env, locals, openFiles, stderr, proc, completed, hist>>

\* print(tree.pretty())
Render ==
    /\ pc = "render"
    /\ attempted' = Append(attempted, "render")
    /\ stdout' = Append(stdout, Pretty(tree))
    /\ completed' = Append(completed, "render")
    /\ pc' = "return"
    /\ UNCHANGED <<env, locals, exc, openFiles, stderr, proc, hist>>

\* main() returns to the module level and the interpreter exits normally
Return ==
    /\ pc = "return"
    /\ exited' = TRUE
    /\ status' = 0
    /\ pc' = "done"
    /\ UNCHANGED <<env, locals, exc, openFiles, streams, attempted, completed,
                   hist>>

\* Variant: main() is wrapped in try/except that prints the error and lets
\* the interpreter exit normally.
ExcepthookSwallow ==
    /\ pc = "unwind"
    /\ stderr' = Append(stderr, exc)
    /\ exited' = TRUE
    /\ status' = 0
    /\ pc' = "done"
    /\ UNCHANGED <<env, locals, exc, openFiles, stdout, attempted, completed,
                   hist>>

\* an exception leaves main(): the interpreter prints its traceback to
\* standard error and exits with status 1
Excepthook ==
    /\ pc = "unwind"
    /\ stderr' = Append(stderr, exc)
    /\ exited' = TRUE
    /\ status' = 1
    /\ pc' = "done"
    /\ UNCHANGED <<env, locals, exc, openFiles, stdout, attempted, completed,
                   hist>>

\* the driver is invoked again with the same command line: a new process
Rerun ==
    /\ pc = "done"
    /\ run < MaxRuns
    /\ run' = run + 1
    /\ prev' = [out |-> stdout, err |-> stderr, status |-> status, fs |-> fs]
    /\ pc' = "start"
    /\ path' = "" /\ grammar' = None /\ parser' = None /\ script' = None
    /\ tree' = NoTree
    /\ exc' = "None"
    /\ openFiles' = {}
    /\ stdout' = <<>> /\ stderr' = <<>>
    /\ exited' = FALSE /\ status' = 0
    /\ attempted' = <<>> /\ completed' = <<>>
    /\ UNCHANGED env

Next ==
    \/ OpenGrammar
    \/ ReadGrammar
    \/ CloseGrammar
    \/ Compile
    \/ ArgvAccess
    \/ OpenSource
    \/ ReadSource
    \/ CloseSource
    \/ Parse
    \/ Render
    \/ Return
    \/ Excepthook
    \/ Rerun

Spec == Init /\ [][Next]_vars

\* ------------------------------------------------------------ vocabulary

\* The error kind of the specification that a Python exception belongs to.
Class(e) ==
    CASE e \in {"FileNotFoundError", "PermissionError", "UnicodeDecodeError"}
           -> "ResourceUnavailable"
      [] e = "IndexError" -> "InvalidInvocation"
      [] e = "GrammarError" -> "GrammarError"
      [] e = "UnexpectedInput" -> "SyntaxError"
      [] OTHER -> "Other"

IsPrefix(s, t) ==
    /\ Len(s) <= Len(t)
    /\ \A i \in 1..Len(s) : s[i] = t[i]

Done == pc = "done"

\* The classes of the diagnostics emitted so far.
Diagnostics == [i \in 1..Len(stderr) |-> Class(stderr[i])]

NoArguments == Len(argv) = 1

\* The grammar file can be read and its text is a well-formed grammar.
GrammarUsable ==
    /\ fs[GrammarPath].kind = "text"
    /\ fs[GrammarPath].data \in wellFormed

\* The grammar file can be read but its text is not a well-formed grammar.
GrammarMalformed ==
    /\ fs[GrammarPath].kind = "text"
    /\ fs[GrammarPath].data \notin wellFormed

\* An argument is given and the file it names is missing or unreadable.
SourceUnavailable ==
    /\ Len(argv) >= 2
    /\ fs[argv[2]].kind # "text"

SourceReadable ==
    /\ Len(argv) >= 2
    /\ fs[argv[2]].kind = "text"

\* The source text is not in the language of the loaded grammar.
SourceNonConforming ==
    /\ GrammarUsable
    /\ SourceReadable
    /\ <<fs[GrammarPath].data, fs[argv[2]].data>> \notin conforms

\* The exception of the earliest failing step, from the environment alone.
FirstFailure ==
    CASE fs[GrammarPath].kind = "absent" -> "FileNotFoundError"
      [] fs[GrammarPath].kind = "denied" -> "PermissionError"
      [] fs[GrammarPath].kind = "undecodable" -> "UnicodeDecodeError"
      [] GrammarMalformed -> "GrammarError"
      [] GrammarUsable /\ NoArguments -> "IndexError"
      [] GrammarUsable /\ SourceUnavailable ->
            IF fs[argv[2]].kind = "absent" THEN "FileNotFoundError"
            ELSE IF fs[argv[2]].kind = "denied" THEN "PermissionError"
            ELSE "UnicodeDecodeError"
      [] SourceNonConforming -> "UnexpectedInput"
      [] OTHER -> "None"

\* ----------------------------------------------------------------- claims

\* C1 as stated: with no arguments the run ends non-zero with an
\* InvalidInvocation diagnostic and no tree, whatever the grammar file holds.
C1_Original ==
    (Done /\ NoArguments) =>
        /\ status # 0
        /\ Diagnostics = <<"InvalidInvocation">>
        /\ stdout = <<>>

\* C1 amended: with no arguments the run ends non-zero with exactly one
\* diagnostic and no tree; the diagnostic is InvalidInvocation exactly when
\* the grammar file was read and compiled, and otherwise it is the one of the
\* failing grammar step (ResourceUnavailable or GrammarError).
C1_NoArguments ==
    (Done /\ NoArguments) =>
        /\ status # 0
        /\ stdout = <<>>
        /\ Len(stderr) = 1
        /\ (Diagnostics = <<"InvalidInvocation">>) <=> GrammarUsable
        /\ ~GrammarUsable =>
              Diagnostics = IF GrammarMalformed THEN <<"GrammarError">>
                            ELSE <<"ResourceUnavailable">>

C1_Witness ==
    /\ Done /\ NoArguments /\ GrammarUsable
    /\ stderr = <<"IndexError">>
    /\ status = 1

\* C2 as stated: a missing or unreadable source path ends the run non-zero
\* with a ResourceUnavailable diagnostic, no tree, and parse and render are
\* never reached.
C2_Original ==
    (Done /\ SourceUnavailable) =>
        /\ status # 0
        /\ Diagnostics = <<"ResourceUnavailable">>
        /\ stdout = <<>>
        /\ \A i \in 1..Len(attempted) : attempted[i] \notin {"parse", "render"}

\* C2 amended: a missing or unreadable source path ends the run non-zero with
\* no tree and without reaching parse or render; the diagnostic is
\* ResourceUnavailable unless the grammar file is readable but malformed, in
\* which case it is GrammarError.
C2_SourceUnavailable ==
    (Done /\ SourceUnavailable) =>
        /\ status # 0
        /\ Diagnostics = IF GrammarMalformed THEN <<"GrammarError">>
                         ELSE <<"ResourceUnavailable">>
        /\ stdout = <<>>
        /\ \A i \in 1..Len(attempted) : attempted[i] \notin {"parse", "render"}

C2_Witness ==
    /\ Done /\ SourceUnavailable /\ GrammarUsable
    /\ attempted = <<"load_grammar", "compile", "load_source">>
    /\ Class(exc) = "ResourceUnavailable"
    /\ status = 1

\* C3: when the source text does not conform to the loaded grammar, nothing is
\* ever written to standard output, no tree is produced, and the run ends
\* non-zero with a SyntaxError diagnostic raised by the parse step.
C3_NonConforming ==
    SourceNonConforming =>
        /\ stdout = <<>>
        /\ tree = NoTree
        /\ Done =>
              /\ status # 0
              /\ Diagnostics = <<"SyntaxError">>
              /\ attempted = <<"load_grammar", "compile", "load_source", "parse">>
              /\ completed = <<"load_grammar", "compile", "load_source">>

C3_Witness ==
    /\ Done /\ SourceNonConforming
    /\ exc = "UnexpectedInput"
    /\ status = 1

\* C4: the exit status is zero exactly when all five steps completed and the
\* tree was printed; every fatal condition ends the run non-zero, and no step
\* is attempted twice.
C4_ExitStatus ==
    /\ Done =>
          /\ exited
          /\ (status = 0) <=> (completed = Order /\ stdout = <<Pretty(tree)>>)
          /\ (status = 0) <=> (FirstFailure = "None")
          /\ (exc # "None" \/ stderr # <<>>) => status # 0
    /\ ~Done => ~exited
    /\ \A i, j \in 1..Len(attempted) : attempted[i] = attempted[j] => i = j

C4_Witness ==
    /\ Done /\ status = 0
    /\ completed = Order
    /\ Len(stdout) = 1

\* C5: the steps begin in program order, each only after the previous one
\* completed; after a failure no further step begins, and the argument and the
\* source file are not touched unless the grammar was loaded and compiled.
C5_StepOrder ==
    /\ IsPrefix(attempted, Order)
    /\ IsPrefix(completed, attempted)
    /\ Len(attempted) <= Len(completed) + 1
    /\ (exc # "None" /\ pc \in {"unwind", "done"}) =>
          Len(attempted) = Len(completed) + 1
    /\ Len(completed) < 2 =>
          /\ path = ""
          /\ script = None
          /\ "source" \notin openFiles
          /\ pc \notin {"open_source", "read_source", "close_source"}

C5_Witness ==
    /\ Done
    /\ attempted = <<"load_grammar", "compile">>
    /\ completed = <<"load_grammar">>
    /\ Len(argv) >= 2
    /\ path = ""

\* C6: at most one diagnostic is emitted; standard output is written only by
\* the render step after parsing completed; a terminated run has either
\* printed the tree exactly once with no diagnostic, or emitted exactly one
\* diagnostic with nothing on standard output.
C6_OneOutcome ==
    /\ Len(stderr) <= 1
    /\ ~(stdout # <<>> /\ stderr # <<>>)
    /\ stdout # <<>> =>
          /\ pc \in {"return", "done"}
          /\ completed = Order
    /\ Done =>
          \/ stdout = <<Pretty(tree)>> /\ tree # NoTree /\ stderr = <<>>
          \/ stdout = <<>> /\ Len(stderr) = 1

C6_Witness ==
    /\ Done
    /\ stdout = <<Pretty(tree)>>
    /\ tree # NoTree
    /\ stderr = <<>>

\* C7: at most one file is open at a time; the grammar file is closed before
\* the parser is compiled, the source file before parsing starts, and no file
\* is open once the run has ended, also when the read itself failed.
C7_FilesClosed ==
    /\ Cardinality(openFiles) <= 1
    /\ "grammar" \in openFiles => pc \in {"read_grammar", "close_grammar"}
    /\ "source" \in openFiles => pc \in {"read_source", "close_source"}
    /\ pc \in {"compile", "parse", "render", "return", "unwind", "done"} =>
          openFiles = {}

C7_Witness ==
    /\ Done
    /\ exc = "UnicodeDecodeError"
    /\ attempted = <<"load_grammar">>
    /\ openFiles = {}

\* C8: the driver leaves the file system as it found it, and a second run on
\* the same command line and files ends with the same standard output, the
\* same diagnostic and the same exit status as the first.
C8_Idempotent ==
    /\ fs = prev.fs
    /\ (run > 1 /\ Done) =>
          /\ stdout = prev.out
          /\ stderr = prev.err
          /\ status = prev.status

C8_Witness ==
    /\ run > 1 /\ Done
    /\ status = 0
    /\ Len(stdout) = 1
    /\ stdout = prev.out

\* C10: the single diagnostic of a run is the one of the earliest failing
\* step in the order grammar read, grammar compile, argument access, source
\* read, parse; the argument is not checked before the grammar is compiled.
C10_EarliestFailure ==
    Done =>
        stderr = IF FirstFailure = "None" THEN <<>> ELSE <<FirstFailure>>

C10_Witness ==
    /\ Done /\ NoArguments
    /\ GrammarMalformed
    /\ stderr = <<"GrammarError">>

====
